---- MODULE Spec2Model ----
(***************************************************************************)
(* Model of the Flask todo application (src/main.py) and of its credential *)
(* validators (src/verification.py).                                       *)
(*                                                                         *)
(* Strings are sequences of one-character strings, so that the validators  *)
(* are computed character by character as the regular expressions do.      *)
(* The two tables live in SQLite (src/main.py:78): an INTEGER PRIMARY KEY  *)
(* is an alias of the rowid, and a new row gets max(rowid)+1.              *)
(***************************************************************************)
EXTENDS Integers, Sequences, FiniteSets, TLC

\* ------------------------------------------------------------------ bounds
\* Largest row id the todo table may hold in the model.
MaxTaskId == 2

\* Largest number of todo rows ever inserted in one behaviour.
MaxCreated == 2

\* Largest number of rows of users_table when signups run concurrently.
MaxUsers == 2

\* Longest username enumerated character by character by the validator check.
MaxShort == 3

\* Longest freely chosen part of a password of the validator check.
MaxCore == 4

\* ------------------------------------------------------- character classes
Upper ==
    {"A","B","C","D","E","F","G","H","I","J","K","L","M",
     "N","O","P","Q","R","S","T","U","V","W","X","Y","Z"}

Lower ==
    {"a","b","c","d","e","f","g","h","i","j","k","l","m",
     "n","o","p","q","r","s","t","u","v","w","x","y","z"}

Digit ==
    {"0","1","2","3","4","5","6","7","8","9"}

\* The character class of the last re.search of verify_password.
Special ==
    {"!","@","#","$","%","^","&","*","(",")",",",".","?","\"",":","{","}","|","<",">"}

\* [A-Za-z]
IsLetter(ch) == ch \in Upper \cup Lower

\* [A-Za-z0-9_.]
IsUserChar(ch) == ch \in Upper \cup Lower \cup Digit \cup {"_", "."}

\* re.match(r'^[A-Za-z][A-Za-z0-9_.]*$', s): a letter, then class characters
\* up to the place where $ matches, which is the end of the string or the
\* position just before a newline that ends the string.
UsernameRegexMatches(s) ==
    /\ Len(s) >= 1
    /\ IsLetter(s[1])
    /\ LET stop == IF s[Len(s)] = "\n" THEN Len(s) - 1 ELSE Len(s)
       IN  \A i \in 2..stop : IsUserChar(s[i])

verify_username(username) ==
    IF ~(3 <= Len(username) /\ Len(username) <= 20) THEN FALSE
    ELSE IF ~UsernameRegexMatches(username) THEN FALSE
    ELSE TRUE

\* verify_password without the re.search for a digit
verify_password_NoDigitTest(password) ==
    IF Len(password) < 8 THEN FALSE
    ELSE IF ~(\E i \in 1..Len(password) : password[i] \in Upper) THEN FALSE
    ELSE IF ~(\E i \in 1..Len(password) : password[i] \in Lower) THEN FALSE
    ELSE IF ~(\E i \in 1..Len(password) : password[i] \in Special) THEN FALSE
    ELSE TRUE

verify_password(password) ==
    IF Len(password) < 8 THEN FALSE
    ELSE IF ~(\E i \in 1..Len(password) : password[i] \in Upper) THEN FALSE
    ELSE IF ~(\E i \in 1..Len(password) : password[i] \in Lower) THEN FALSE
    ELSE IF ~(\E i \in 1..Len(password) : password[i] \in Digit) THEN FALSE
    ELSE IF ~(\E i \in 1..Len(password) : password[i] \in Special) THEN FALSE
    ELSE TRUE

\* ------------------------------------------------------------ request data
\* the browsers that hold a session cookie
Clients == {"c1"}

\* the threads of the development server (app.run serves each request in its
\* own thread)
Threads == {"t1", "t2"}

\* a thread that is serving no signup request
Idle == [pc |-> "idle"]

\* datetime.utcnow().date is the bound method of the datetime made when the
\* module is imported: the column default is that day for every row
ImportDate == "day the process started"

Methods == {"GET", "POST"}

Alice1 == <<"a","l","i","c","e","1">>

Bob == <<"b","o","b">>

\* too short and starting with a digit
BadName == <<"1","x">>

UsernameInputs == {Alice1, Bob, BadName}

StrongPw == <<"S","t","r","0","n","g","!","P","w">>

WeakPw == <<"p","w">>

PasswordInputs == {StrongPw, WeakPw}

BuyMilk == <<"B","u","y"," ","m","i","l","k">>

TwoPercent == <<"2","%">>

TitleInputs == {<< >>, BuyMilk}

DescriptionInputs == {<< >>, TwoPercent}

\* db.String(100) of Todo.title
TitleColumnLen == 100

\* a title one character longer than the column is declared
LongTitle == [i \in 1..(TitleColumnLen + 1) |-> "x"]

Blank == <<" ">>

\* the forms of POST / with blank and over-long values, both keys present
WideTodoForms ==
    [title : {<< >>, Blank, BuyMilk, LongTitle},
     description : {<< >>, Blank, TwoPercent}]

\* request.form when the request carries no form field at all
EmptyForm == << >>

\* request.form of POST /: a form may lack either key.
TodoForms ==
    [title : TitleInputs, description : DescriptionInputs]
        \cup [title : TitleInputs] \cup [description : DescriptionInputs]

LoginForms ==
    [username : UsernameInputs, password : PasswordInputs] \cup {EmptyForm}

SignupForms ==
    [username : UsernameInputs, password : PasswordInputs,
     confirm_password : PasswordInputs] \cup {EmptyForm}

TaskIds == 1..MaxTaskId

\* Ids a client may put in a URL: the ids of the table and one beyond.
UrlIds == 1..(MaxTaskId + 1)

\* ------------------------------------------------------------------- state
VARIABLES
    users,      \* users_table: sequence of rows, the row id is the index
    tasks,      \* todo table: function from the present row ids to rows
    session,    \* per client, the user id flask-login keeps (0: none)
    created,    \* history: number of todo rows inserted so far
    req,        \* the last request: client, route, method, form, url id
    resp,       \* the response to the last request
    pending     \* per server thread, the signup request it is in the middle of

vars == <<users, tasks, session, created, req, resp, pending>>

\* bcrypt.generate_password_hash / check_password_hash: the stored value is
\* not the password; it verifies exactly the password it was made from.
generate_password_hash(password) == [bcrypt |-> password]

check_password_hash(pw_hash, password) == pw_hash.bcrypt = password

\* User.query.filter_by(username=...).first(): id of the first row, 0 if none
FirstUserByName(username) ==
    IF \E i \in 1..Len(users) : users[i].username = username
    THEN CHOOSE i \in 1..Len(users) :
            /\ users[i].username = username
            /\ \A j \in 1..(i - 1) : users[j].username # username
    ELSE 0

\* load_user / User.get: the row with that id, 0 if there is none
load_user(user_id) == IF user_id \in 1..Len(users) THEN user_id ELSE 0

\* current_user.is_authenticated as @login_required tests it
is_authenticated(c) == session[c] # 0 /\ load_user(session[c]) # 0

\* SQLite's rowid for an insert into todo
NextTaskId ==
    IF DOMAIN tasks = {} THEN 1
    ELSE 1 + CHOOSE m \in DOMAIN tasks : \A i \in DOMAIN tasks : i <= m

\* ids of a set, ascending (the order of a rowid scan)
RECURSIVE SortedIds(_)
SortedIds(S) ==
    IF S = {} THEN << >>
    ELSE LET m == CHOOSE x \in S : \A y \in S : x <= y
         IN  <<m>> \o SortedIds(S \ {m})

\* UserTodos without the owner's filter (Todo.query.filter_by(is_completed=flag))
UserTodos_AnyOwner(uid, flag) ==
    SortedIds({i \in DOMAIN tasks : tasks[i].is_completed = flag})

\* user.todos.filter_by(is_completed=flag).all()
UserTodos(uid, flag) ==
    SortedIds({i \in DOMAIN tasks :
                  tasks[i].user_id = uid /\ tasks[i].is_completed = flag})

Request(c, route, method, form, id) ==
    [client |-> c, route |-> route, method |-> method, form |-> form, id |-> id]

Response(status, body, location, flash, todos, completed) ==
    [status |-> status, body |-> body, location |-> location,
     flash |-> flash, todos |-> todos, completed |-> completed]

\* a response that changes no table and no session
Reply(r) ==
    /\ resp' = r
    /\ UNCHANGED <<users, tasks, session, created>>

\* login_manager.login_view = "login": what @login_required answers to a
\* request without an authenticated user
Unauthorized ==
    Reply(Response(302, "", "/login", "Please log in to access this page.",
                   << >>, << >>))

\* request.form[key] of a missing key outside a try block
BadRequest == Reply(Response(400, "Bad Request", "", "", << >>, << >>))

\* db.get_or_404(Todo, id) found nothing
NotFound == Reply(Response(404, "Not Found", "", "", << >>, << >>))

Init ==
    /\ users = << >>
    /\ tasks = << >>
    /\ session = [c \in Clients |-> 0]
    /\ created = 0
    /\ req = Request("c1", "", "", EmptyForm, 0)
    /\ resp = Response(0, "", "", "", << >>, << >>)
    /\ pending = [t \in Threads |-> Idle]

\* ---------------------------------------------------------------- handlers
hello(c) ==
    /\ UNCHANGED pending
    /\ req' = Request(c, "/", "GET", EmptyForm, 0)
    /\ IF ~is_authenticated(c) THEN Unauthorized
       ELSE
        LET user == FirstUserByName(users[session[c]].username)
        IN  Reply(Response(200, "home.html", "", "",
                           UserTodos(user, FALSE), UserTodos(user, TRUE)))

\* login that skips bcrypt.check_password_hash
login_NoPasswordCheck(c, method, form) ==
    /\ UNCHANGED pending
    /\ req' = Request(c, "/login", method, form, 0)
    /\ IF method = "POST" THEN
        IF ~({"username", "password"} \subseteq DOMAIN form) THEN BadRequest
        ELSE
        LET user == FirstUserByName(form.username)
        IN  IF user = 0 THEN
                Reply(Response(200, "login.html", "", "Invalid User.",
                               << >>, << >>))
            ELSE IF FALSE THEN
                Reply(Response(200, "login.html", "", "Invalid Password.",
                               << >>, << >>))
            ELSE
                /\ session' = [session EXCEPT ![c] = user]
                /\ resp' = Response(302, "", "/", "Login Successfull.",
                                    << >>, << >>)
                /\ UNCHANGED <<users, tasks, created>>
       ELSE Reply(Response(200, "login.html", "", "", << >>, << >>))

\* login that drops the current user when the password is wrong
login_FailureLogsOut(c, method, form) ==
    /\ UNCHANGED pending
    /\ req' = Request(c, "/login", method, form, 0)
    /\ IF method = "POST" THEN
        IF ~({"username", "password"} \subseteq DOMAIN form) THEN BadRequest
        ELSE
        LET user == FirstUserByName(form.username)
        IN  IF user = 0 THEN
                Reply(Response(200, "login.html", "", "Invalid User.",
                               << >>, << >>))
            ELSE IF ~check_password_hash(users[user].password_hash,
                                         form.password) THEN
                /\ session' = [session EXCEPT ![c] = 0]
                /\ resp' = Response(200, "login.html", "", "Invalid Password.",
                                    << >>, << >>)
                /\ UNCHANGED <<users, tasks, created>>
            ELSE
                /\ session' = [session EXCEPT ![c] = user]
                /\ resp' = Response(302, "", "/", "Login Successfull.",
                                    << >>, << >>)
                /\ UNCHANGED <<users, tasks, created>>
       ELSE Reply(Response(200, "login.html", "", "", << >>, << >>))

login(c, method, form) ==
    /\ UNCHANGED pending
    /\ req' = Request(c, "/login", method, form, 0)
    /\ IF method = "POST" THEN
        IF ~({"username", "password"} \subseteq DOMAIN form) THEN BadRequest
        ELSE
        LET user == FirstUserByName(form.username)
        IN  IF user = 0 THEN
                Reply(Response(200, "login.html", "", "Invalid User.",
                               << >>, << >>))
            ELSE IF ~check_password_hash(users[user].password_hash,
                                         form.password) THEN
                Reply(Response(200, "login.html", "", "Invalid Password.",
                               << >>, << >>))
            ELSE
                /\ session' = [session EXCEPT ![c] = user]
                /\ resp' = Response(302, "", "/", "Login Successfull.",
                                    << >>, << >>)
                /\ UNCHANGED <<users, tasks, created>>
       ELSE Reply(Response(200, "login.html", "", "", << >>, << >>))

\* signup_error with the lookup of an existing user left out
signup_error_NoDuplicateCheck(form) ==
    IF ~verify_username(form.username) THEN "Invalid username."
    ELSE IF ~verify_password(form.password) THEN "Invalid password."
    ELSE IF form.password # form.confirm_password THEN "Passwords do not match."
    ELSE ""

\* signup_error with the password tested before the username
signup_error_PasswordFirst(form) ==
    IF FirstUserByName(form.username) # 0 THEN "User already exists."
    ELSE IF ~verify_password(form.password) THEN "Invalid password."
    ELSE IF ~verify_username(form.username) THEN "Invalid username."
    ELSE IF form.password # form.confirm_password THEN "Passwords do not match."
    ELSE ""

\* the if/elif chain of signup, given the row its lookup returned (0: none):
\* the message flashed, "" when every test passes
signup_check(user, form) ==
    IF user # 0 THEN "User already exists."
    ELSE IF ~verify_username(form.username) THEN "Invalid username."
    ELSE IF ~verify_password(form.password) THEN "Invalid password."
    ELSE IF form.password # form.confirm_password THEN "Passwords do not match."
    ELSE ""

\* the lookup of signup followed by its if/elif chain
signup_error(form) == signup_check(FirstUserByName(form.username), form)

\* signup that adds and commits the row before comparing the two passwords
signup_CommitBeforeConfirm(c, method, form) ==
    /\ UNCHANGED pending
    /\ req' = Request(c, "/signup", method, form, 0)
    /\ IF method = "POST" THEN
        IF ~({"username", "password", "confirm_password"} \subseteq DOMAIN form)
        THEN BadRequest
        ELSE IF signup_error(form) \notin {"", "Passwords do not match."} THEN
            Reply(Response(200, "signup.html", "", signup_error(form),
                           << >>, << >>))
        ELSE
            /\ users' = Append(users,
                    [username |-> form.username,
                     password_hash |-> generate_password_hash(form.password)])
            /\ resp' = IF signup_error(form) = ""
                       THEN Response(302, "", "/login",
                                     "User added successfully.", << >>, << >>)
                       ELSE Response(200, "signup.html", "", signup_error(form),
                                     << >>, << >>)
            /\ UNCHANGED <<tasks, session, created>>
       ELSE Reply(Response(200, "signup.html", "", "", << >>, << >>))

signup(c, method, form) ==
    /\ UNCHANGED pending
    /\ req' = Request(c, "/signup", method, form, 0)
    /\ IF method = "POST" THEN
        IF ~({"username", "password", "confirm_password"} \subseteq DOMAIN form)
        THEN BadRequest
        ELSE IF signup_error(form) # "" THEN
            Reply(Response(200, "signup.html", "", signup_error(form),
                           << >>, << >>))
        ELSE
            /\ users' = Append(users,
                    [username |-> form.username,
                     password_hash |-> generate_password_hash(form.password)])
            /\ resp' = Response(302, "", "/login",
                                "User added successfully.", << >>, << >>)
            /\ UNCHANGED <<tasks, session, created>>
       ELSE Reply(Response(200, "signup.html", "", "", << >>, << >>))

\* handle_submit that gives the row to the first user of users_table
handle_submit_FirstUserOwner(c, form) ==
    /\ UNCHANGED pending
    /\ req' = Request(c, "/", "POST", form, 0)
    /\ IF ~is_authenticated(c) THEN Unauthorized
       ELSE IF ~({"title", "description"} \subseteq DOMAIN form) THEN
        \* request.form[...] raises, the except branch rolls back
        Reply(Response(500, "An error occurred", "", "", << >>, << >>))
       ELSE IF form.title = << >> \/ form.description = << >> THEN
        Reply(Response(400, "Title and description are required.",
                       "", "", << >>, << >>))
       ELSE
        LET user == FirstUserByName(users[session[c]].username)
        IN  /\ NextTaskId <= MaxTaskId
            /\ created < MaxCreated
            /\ tasks' = [i \in DOMAIN tasks \cup {NextTaskId} |->
                            IF i = NextTaskId
                            THEN [title |-> form.title,
                                  description |-> form.description,
                                  date_created |-> ImportDate,
                                  is_completed |-> FALSE,
                                  user_id |-> 1,
                                  serial |-> created + 1]
                            ELSE tasks[i]]
            /\ created' = created + 1
            /\ resp' = Response(302, "", "/", "Added successfully",
                                << >>, << >>)
            /\ UNCHANGED <<users, session>>

handle_submit(c, form) ==
    /\ UNCHANGED pending
    /\ req' = Request(c, "/", "POST", form, 0)
    /\ IF ~is_authenticated(c) THEN Unauthorized
       ELSE IF ~({"title", "description"} \subseteq DOMAIN form) THEN
        \* request.form[...] raises, the except branch rolls back
        Reply(Response(500, "An error occurred", "", "", << >>, << >>))
       ELSE IF form.title = << >> \/ form.description = << >> THEN
        Reply(Response(400, "Title and description are required.",
                       "", "", << >>, << >>))
       ELSE
        LET user == FirstUserByName(users[session[c]].username)
        IN  /\ NextTaskId <= MaxTaskId
            /\ created < MaxCreated
            /\ tasks' = [i \in DOMAIN tasks \cup {NextTaskId} |->
                            IF i = NextTaskId
                            THEN [title |-> form.title,
                                  description |-> form.description,
                                  date_created |-> ImportDate,
                                  is_completed |-> FALSE,
                                  user_id |-> user,
                                  serial |-> created + 1]
                            ELSE tasks[i]]
            /\ created' = created + 1
            /\ resp' = Response(302, "", "/", "Added successfully",
                                << >>, << >>)
            /\ UNCHANGED <<users, session>>

\* handle_complete that flips the flag instead of setting it
handle_complete_Toggle(c, id) ==
    /\ UNCHANGED pending
    /\ req' = Request(c, "/complete", "GET", EmptyForm, id)
    /\ IF ~is_authenticated(c) THEN Unauthorized
       ELSE IF id \notin DOMAIN tasks THEN NotFound
       ELSE
        /\ tasks' = [tasks EXCEPT ![id].is_completed = ~tasks[id].is_completed]
        /\ resp' = Response(302, "", "/", "", << >>, << >>)
        /\ UNCHANGED <<users, session, created>>

handle_complete(c, id) ==
    /\ UNCHANGED pending
    /\ req' = Request(c, "/complete", "GET", EmptyForm, id)
    /\ IF ~is_authenticated(c) THEN Unauthorized
       ELSE IF id \notin DOMAIN tasks THEN NotFound
       ELSE
        /\ tasks' = [tasks EXCEPT ![id].is_completed = TRUE]
        /\ resp' = Response(302, "", "/", "", << >>, << >>)
        /\ UNCHANGED <<users, session, created>>

\* handle_delete without @login_required
handle_delete_NoLoginRequired(c, id) ==
    /\ UNCHANGED pending
    /\ req' = Request(c, "/delete", "GET", EmptyForm, id)
    /\ IF id \notin DOMAIN tasks THEN NotFound
       ELSE
        /\ tasks' = [i \in DOMAIN tasks \ {id} |-> tasks[i]]
        /\ resp' = Response(302, "", "/", "", << >>, << >>)
        /\ UNCHANGED <<users, session, created>>

handle_delete(c, id) ==
    /\ UNCHANGED pending
    /\ req' = Request(c, "/delete", "GET", EmptyForm, id)
    /\ IF ~is_authenticated(c) THEN Unauthorized
       ELSE IF id \notin DOMAIN tasks THEN NotFound
       ELSE
        /\ tasks' = [i \in DOMAIN tasks \ {id} |-> tasks[i]]
        /\ resp' = Response(302, "", "/", "", << >>, << >>)
        /\ UNCHANGED <<users, session, created>>

handle_delete_comp(c, id) ==
    /\ UNCHANGED pending
    /\ req' = Request(c, "/delete_comp", "GET", EmptyForm, id)
    /\ IF ~is_authenticated(c) THEN Unauthorized
       ELSE IF id \notin DOMAIN tasks THEN NotFound
       ELSE
        /\ tasks' = [i \in DOMAIN tasks \ {id} |-> tasks[i]]
        /\ resp' = Response(302, "", "/", "", << >>, << >>)
        /\ UNCHANGED <<users, session, created>>

\* handle_clear_completed that deletes every row, whatever its flag
handle_clear_completed_AllOfStatus(c) ==
    /\ UNCHANGED pending
    /\ req' = Request(c, "/clear_completed", "GET", EmptyForm, 0)
    /\ IF ~is_authenticated(c) THEN Unauthorized
       ELSE
        /\ tasks' = [i \in {j \in DOMAIN tasks : FALSE} |->
                        tasks[i]]
        /\ resp' = Response(302, "", "/", "", << >>, << >>)
        /\ UNCHANGED <<users, session, created>>

\* handle_clear_completed with filter_by(is_completed=False)
handle_clear_completed_WrongFlag(c) ==
    /\ UNCHANGED pending
    /\ req' = Request(c, "/clear_completed", "GET", EmptyForm, 0)
    /\ IF ~is_authenticated(c) THEN Unauthorized
       ELSE
        /\ tasks' = [i \in {j \in DOMAIN tasks : tasks[j].is_completed} |->
                        tasks[i]]
        /\ resp' = Response(302, "", "/", "", << >>, << >>)
        /\ UNCHANGED <<users, session, created>>

handle_clear_completed(c) ==
    /\ UNCHANGED pending
    /\ req' = Request(c, "/clear_completed", "GET", EmptyForm, 0)
    /\ IF ~is_authenticated(c) THEN Unauthorized
       ELSE
        /\ tasks' = [i \in {j \in DOMAIN tasks : ~tasks[j].is_completed} |->
                        tasks[i]]
        /\ resp' = Response(302, "", "/", "", << >>, << >>)
        /\ UNCHANGED <<users, session, created>>

\* handle_logout that never calls logout_user
handle_logout_KeepsSession(c) ==
    /\ UNCHANGED pending
    /\ req' = Request(c, "/logout", "GET", EmptyForm, 0)
    /\ IF ~is_authenticated(c) THEN Unauthorized
       ELSE
        /\ session' = session
        /\ resp' = Response(302, "", "/login", "Logout successfull.",
                            << >>, << >>)
        /\ UNCHANGED <<users, tasks, created>>

handle_logout(c) ==
    /\ UNCHANGED pending
    /\ req' = Request(c, "/logout", "GET", EmptyForm, 0)
    /\ IF ~is_authenticated(c) THEN Unauthorized
       ELSE
        /\ session' = [session EXCEPT ![c] = 0]
        /\ resp' = Response(302, "", "/login", "Logout successfull.",
                            << >>, << >>)
        /\ UNCHANGED <<users, tasks, created>>

\* ------------------------------------------------------------ the requests
Hello == \E c \in Clients : hello(c)

Login ==
    \E c \in Clients, m \in Methods :
        \E f \in (IF m = "POST" THEN LoginForms ELSE {EmptyForm}) :
            login(c, m, f)

Signup ==
    \E c \in Clients, m \in Methods :
        \E f \in (IF m = "POST" THEN SignupForms ELSE {EmptyForm}) :
            signup(c, m, f)

Submit == \E c \in Clients, f \in TodoForms : handle_submit(c, f)

Complete == \E c \in Clients, id \in UrlIds : handle_complete(c, id)

Delete == \E c \in Clients, id \in UrlIds : handle_delete(c, id)

DeleteComp == \E c \in Clients, id \in UrlIds : handle_delete_comp(c, id)

ClearCompleted == \E c \in Clients : handle_clear_completed(c)

Logout == \E c \in Clients : handle_logout(c)

Next ==
    \/ Hello
    \/ Login
    \/ Signup
    \/ Submit
    \/ Complete
    \/ Delete
    \/ DeleteComp
    \/ ClearCompleted
    \/ Logout

Spec == Init /\ [][Next]_vars

\* ---- the task handlers alone, for alice1 logged in, with the wide forms
\* the state right after alice1 signed up and logged in
InitForms ==
    /\ users = <<[username |-> Alice1,
                  password_hash |-> generate_password_hash(StrongPw)]>>
    /\ tasks = << >>
    /\ session = [c \in Clients |-> 1]
    /\ created = 0
    /\ req = Request("c1", "/login", "POST",
                     [username |-> Alice1, password |-> StrongPw], 0)
    /\ resp = Response(302, "", "/", "Login Successfull.", << >>, << >>)
    /\ pending = [t \in Threads |-> Idle]

SubmitWide == \E c \in Clients, f \in WideTodoForms : handle_submit(c, f)

NextForms ==
    \/ SubmitWide
    \/ Complete
    \/ Delete
    \/ ClearCompleted

SpecForms == InitForms /\ [][NextForms]_vars

\* ---- signup served by concurrent threads: the lookup (src/main.py:186) and
\* the insert with its commit (src/main.py:197-200) are separate steps, and
\* users_table has no unique constraint on username (src/main.py:100)
signup_lookup(t, c, form) ==
    /\ pending[t] = Idle
    /\ pending' = [pending EXCEPT ![t] =
                      [pc |-> "looked_up", client |-> c, form |-> form,
                       user |-> FirstUserByName(form.username)]]
    /\ req' = Request(c, "/signup", "POST", form, 0)
    /\ UNCHANGED <<users, tasks, session, created, resp>>

signup_finish(t) ==
    /\ pending[t] # Idle
    /\ LET p == pending[t]
           msg == signup_check(p.user, p.form)
       IN  /\ req' = Request(p.client, "/signup", "POST", p.form, 0)
           /\ IF msg # "" THEN
                /\ resp' = Response(200, "signup.html", "", msg, << >>, << >>)
                /\ users' = users
              ELSE
                /\ Len(users) < MaxUsers
                /\ users' = Append(users,
                        [username |-> p.form.username,
                         password_hash |->
                            generate_password_hash(p.form.password)])
                /\ resp' = Response(302, "", "/login",
                                    "User added successfully.", << >>, << >>)
    /\ pending' = [pending EXCEPT ![t] = Idle]
    /\ UNCHANGED <<tasks, session, created>>

SignupLookup ==
    \E t \in Threads, c \in Clients, f \in SignupForms \ {EmptyForm} :
        signup_lookup(t, c, f)

SignupFinish == \E t \in Threads : signup_finish(t)

NextConc ==
    \/ SignupLookup
    \/ SignupFinish

SpecConc == Init /\ [][NextConc]_vars

\* ---- the validators called on their own
\* the strings over an alphabet of length at most n
StringsUpTo(alphabet, n) == UNION {[1..k -> alphabet] : k \in 0..n}

\* letters, a digit, the two allowed signs, a sign that is not allowed, a
\* space and a newline
UsernameAlphabet == {"a", "Z", "7", "_", ".", "-", " ", "\n"}

\* the upper limit of len(username) in verify_username
MaxUsernameLen == 20

\* a string made n characters long by letters put after its first character
Stretch(str, n) ==
    IF str = << >> THEN [i \in 1..n |-> "a"]
    ELSE <<str[1]>> \o [i \in 1..(n - Len(str)) |-> "a"] \o Tail(str)

\* every short string, and each of them stretched to the length limit and to
\* one character more
UsernameDomain ==
    StringsUpTo(UsernameAlphabet, MaxShort)
        \cup {Stretch(u, n) : u \in StringsUpTo(UsernameAlphabet, MaxShort),
                               n \in {MaxUsernameLen, MaxUsernameLen + 1}}

\* an upper-case letter, a lower-case letter, a digit, a sign of the class
\* of verify_password and a sign outside it
PasswordAlphabet == {"A", "a", "1", "!", "-"}

\* the lower limit of len(password) in verify_password
MinPasswordLen == 8

\* a string made n characters long by repeating ch after it
Pad(str, ch, n) == str \o [i \in 1..(n - Len(str)) |-> ch]

\* every short string, and each of them padded to one character less than
\* the limit, to the limit and to one character more
PasswordDomain ==
    StringsUpTo(PasswordAlphabet, MaxCore)
        \cup {Pad(p, ch, n) : p \in StringsUpTo(PasswordAlphabet, MaxCore),
                               ch \in PasswordAlphabet,
                               n \in (MinPasswordLen - 1)..(MinPasswordLen + 1)}

\* str(bool)
PyBool(b) == IF b THEN "True" ELSE "False"

\* a call that is about to be made: the function and its argument in req,
\* nothing in resp
InitCall(function, form) ==
    /\ users = << >>
    /\ tasks = << >>
    /\ session = [c \in Clients |-> 0]
    /\ created = 0
    /\ req = Request("c1", function, "", form, 0)
    /\ resp = Response(0, "", "", "", << >>, << >>)
    /\ pending = [t \in Threads |-> Idle]

\* the call returns: the value is the body of resp
Return(value) ==
    /\ resp.status = 0
    /\ resp' = Response(200, PyBool(value), "", "", << >>, << >>)
    /\ UNCHANGED <<users, tasks, session, created, req, pending>>

InitUsername == \E u \in UsernameDomain :
    InitCall("verify_username", [username |-> u])

CallVerifyUsername == Return(verify_username(req.form.username))

SpecUsername == InitUsername /\ [][CallVerifyUsername]_vars

InitPassword == \E p \in PasswordDomain :
    InitCall("verify_password", [password |-> p])

CallVerifyPassword == Return(verify_password(req.form.password))

SpecPassword == InitPassword /\ [][CallVerifyPassword]_vars

TypeOK ==
    /\ \A i \in 1..Len(users) : users[i].username \in UsernameInputs
    /\ DOMAIN tasks \subseteq TaskIds
    /\ \A c \in Clients : session[c] \in 0..Len(users)
    /\ created \in 0..MaxCreated

\* ------------------------------------------------------------------ claims
\* the user a client's session is bound to before the request (0: none)
Caller == session[req'.client]

\* the rows of the todo table owned by a user
OwnedBy(uid) == {i \in DOMAIN tasks : tasks[i].user_id = uid}

\* C1: when a logged-in user A requests /delete/{id} or /delete_comp/{id}
\* for a task owned by another user B, the answer is NotFound (404) and the
\* todo table is left as it was.
C1_DeleteOfForeignTaskFails ==
    [][(/\ req'.route \in {"/delete", "/delete_comp"}
        /\ Caller # 0
        /\ req'.id \in DOMAIN tasks
        /\ tasks[req'.id].user_id # Caller)
       => (resp'.status = 404 /\ tasks' = tasks)]_vars

\* C2: /complete/{id} answers NotFound (404) and changes no is_completed
\* flag when the caller owns no task with that id; when the caller owns the
\* task, its is_completed becomes true.
C2_CompleteScopedByOwner ==
    [][(req'.route = "/complete" /\ Caller # 0)
       => IF req'.id \in OwnedBy(Caller)
          THEN /\ req'.id \in DOMAIN tasks'
               /\ tasks'[req'.id].is_completed
          ELSE /\ resp'.status = 404
               /\ \A i \in DOMAIN tasks :
                    /\ i \in DOMAIN tasks'
                    /\ tasks'[i].is_completed = tasks[i].is_completed]_vars

\* C3: /clear_completed removes exactly the caller's completed tasks: none
\* of them remains, and every other row (the caller's active tasks, and all
\* tasks of other users) is still present and unchanged.
C3_ClearCompletedRemovesOnlyOwn ==
    [][(req'.route = "/clear_completed" /\ Caller # 0)
       => LET removed == {i \in OwnedBy(Caller) : tasks[i].is_completed}
          IN  tasks' = [i \in DOMAIN tasks \ removed |-> tasks[i]]]_vars

\* the elements of a sequence
Range(q) == {q[i] : i \in 1..Len(q)}

\* C4: the page rendered by GET / for a session bound to user U lists
\* exactly U's tasks and no task of another user, in two disjoint lists:
\* todos = U's tasks with is_completed false, completed = U's tasks with
\* is_completed true.
C4_HomeListsOwnTasksPartitioned ==
    resp.body = "home.html" =>
        LET u == session[req.client]
        IN  /\ u # 0
            /\ Range(resp.todos) =
                 {i \in DOMAIN tasks : tasks[i].user_id = u /\ ~tasks[i].is_completed}
            /\ Range(resp.completed) =
                 {i \in DOMAIN tasks : tasks[i].user_id = u /\ tasks[i].is_completed}
            /\ Range(resp.todos) \cap Range(resp.completed) = {}
            /\ Len(resp.todos) = Cardinality(Range(resp.todos))
            /\ Len(resp.completed) = Cardinality(Range(resp.completed))

\* a home page with a task in it, rendered while another user also has a task
C4_Witness ==
    /\ resp.body = "home.html"
    /\ Len(resp.todos) + Len(resp.completed) >= 1
    /\ \E i \in DOMAIN tasks : tasks[i].user_id # session[req.client]

\* the last request was a POST /signup with its three fields
IsSignupPost(r) ==
    /\ r.route = "/signup"
    /\ r.method = "POST"
    /\ {"username", "password", "confirm_password"} \subseteq DOMAIN r.form

\* the rows of users_table with a username
NamedUsers(username) == {i \in 1..Len(users) : users[i].username = username}

\* C5: a signup for a username that is already registered, with otherwise
\* valid credentials, is answered "User already exists." and adds no row;
\* the store holds exactly one user with that username.
C5_SecondSignupIsDuplicate ==
    /\ [][(/\ IsSignupPost(req')
           /\ NamedUsers(req'.form.username) # {}
           /\ verify_password(req'.form.password)
           /\ req'.form.password = req'.form.confirm_password)
          => (/\ resp'.flash = "User already exists."
              /\ users' = users
              /\ Cardinality(NamedUsers(req'.form.username)) = 1)]_vars
    /\ [](\A i, j \in 1..Len(users) :
            users[i].username = users[j].username => i = j)

\* a second, otherwise valid signup for a registered username was rejected
C5_Witness ==
    /\ IsSignupPost(req)
    /\ resp.flash = "User already exists."
    /\ verify_password(req.form.password)
    /\ req.form.password = req.form.confirm_password
    /\ Cardinality(NamedUsers(req.form.username)) = 1

\* C6: signup reports the first failure in the order duplicate user, invalid
\* username, invalid password, password mismatch, and only that one; it adds
\* exactly one user, the submitted one, only when all four tests pass.
C6_SignupPriorityOrder ==
    [][IsSignupPost(req')
       => LET f == req'.form
          IN  IF NamedUsers(f.username) # {}
              THEN resp'.flash = "User already exists." /\ users' = users
              ELSE IF ~verify_username(f.username)
              THEN resp'.flash = "Invalid username." /\ users' = users
              ELSE IF ~verify_password(f.password)
              THEN resp'.flash = "Invalid password." /\ users' = users
              ELSE IF f.password # f.confirm_password
              THEN resp'.flash = "Passwords do not match." /\ users' = users
              ELSE /\ resp'.flash = "User added successfully."
                   /\ Len(users') = Len(users) + 1
                   /\ SubSeq(users', 1, Len(users)) = users
                   /\ users'[Len(users')].username = f.username]_vars

\* a signup failing the username, the password and the confirmation at once
\* was answered with the username's message
C6_Witness ==
    /\ IsSignupPost(req)
    /\ resp.flash = "Invalid username."
    /\ ~verify_password(req.form.password)
    /\ req.form.password # req.form.confirm_password

\* C7: a rejected signup (any of the four messages) leaves users_table, the
\* todo table and every session as they were.
C7_RejectedSignupWritesNothing ==
    [][(/\ IsSignupPost(req')
        /\ resp'.flash \in {"User already exists.", "Invalid username.",
                            "Invalid password.", "Passwords do not match."})
       => (users' = users /\ tasks' = tasks /\ session' = session)]_vars

\* a signup rejected for its confirmation while the stores are not empty
C7_Witness ==
    /\ IsSignupPost(req)
    /\ resp.flash = "Passwords do not match."
    /\ users # << >>
    /\ tasks # << >>
    /\ session[req.client] # 0

\* the last request was a POST /login with its two fields
IsLoginPost(r) ==
    /\ r.route = "/login"
    /\ r.method = "POST"
    /\ {"username", "password"} \subseteq DOMAIN r.form

\* C8: login answers "Invalid User." when no user has the username,
\* "Invalid Password." when the user exists and the password does not verify
\* against the stored hash (the session is untouched in both cases), and
\* otherwise binds the client's session to the user registered under that
\* username.
C8_Authenticate ==
    [][IsLoginPost(req')
       => LET f == req'.form
              c == req'.client
              found == NamedUsers(f.username)
          IN  IF found = {}
              THEN resp'.flash = "Invalid User." /\ session' = session
              ELSE IF \A i \in found :
                        ~check_password_hash(users[i].password_hash, f.password)
              THEN resp'.flash = "Invalid Password." /\ session' = session
              ELSE /\ resp'.flash = "Login Successfull."
                   /\ session'[c] \in found
                   /\ \A d \in Clients \ {c} : session'[d] = session[d]]_vars

\* a login that succeeded for the user of the second row of users_table
C8_Witness ==
    /\ IsLoginPost(req)
    /\ resp.flash = "Login Successfull."
    /\ session[req.client] = 2
    /\ users[2].username = req.form.username
    /\ users[1].username # req.form.username

TaskRoutes == {"/", "/complete", "/delete", "/delete_comp", "/clear_completed"}

\* C9: a request to a task endpoint from a client without an authenticated
\* session is redirected to /login and changes neither table.
C9_LoginRequired ==
    [][(req'.route \in TaskRoutes /\ session[req'.client] = 0)
       => (/\ resp'.status = 302
           /\ resp'.location = "/login"
           /\ users' = users
           /\ tasks' = tasks)]_vars

\* an anonymous /delete of a task that exists was redirected
C9_Witness ==
    /\ req.route = "/delete"
    /\ session[req.client] = 0
    /\ req.id \in DOMAIN tasks
    /\ resp.location = "/login"

\* C10: a task goes Active -> Completed -> Gone or Active -> Gone. A row that
\* stays keeps its identity and its is_completed never goes from true to
\* false; a row that appears is a newly inserted Active task, never one that
\* existed before (serials up to created are those of the tasks made so far).
C10_TaskLifecycle ==
    /\ [](\A i \in DOMAIN tasks : tasks[i].serial \in 1..created)
    /\ [][/\ created' >= created
          /\ \A i \in DOMAIN tasks' :
                IF i \in DOMAIN tasks /\ tasks'[i].serial = tasks[i].serial
                THEN /\ tasks[i].is_completed => tasks'[i].is_completed
                     /\ tasks'[i].user_id = tasks[i].user_id
                ELSE /\ tasks'[i].serial > created
                     /\ ~tasks'[i].is_completed]_vars

\* a task that took the row id of a deleted task has been completed
C10_Witness ==
    /\ req.route = "/complete"
    /\ resp.status = 302
    /\ \E i \in DOMAIN tasks :
            /\ tasks[i].is_completed
            /\ tasks[i].serial > i

\* the last request was a POST / that inserted a row
IsInsert(r, a) ==
    /\ r.route = "/"
    /\ r.method = "POST"
    /\ a.flash = "Added successfully"

\* C11: a task inserted by POST / belongs to the user of the requesting
\* session and is not completed; no request changes the owner of a task that
\* stays in the table; every task references a row of users_table.
C11_OwnerFixedAtCreation ==
    /\ [](\A i \in DOMAIN tasks : tasks[i].user_id \in 1..Len(users))
    /\ [][/\ IsInsert(req', resp') =>
                \E n \in DOMAIN tasks' :
                    /\ tasks'[n].serial = created + 1
                    /\ \A i \in DOMAIN tasks : tasks[i].serial # created + 1
                    /\ tasks'[n].user_id = Caller
                    /\ Caller # 0
                    /\ ~tasks'[n].is_completed
          /\ \A i \in DOMAIN tasks \cap DOMAIN tasks' :
                tasks'[i].serial = tasks[i].serial =>
                    tasks'[i].user_id = tasks[i].user_id]_vars

\* the second registered user inserted a task while the first one has a task
C11_Witness ==
    /\ IsInsert(req, resp)
    /\ session[req.client] = 2
    /\ \E i, j \in DOMAIN tasks :
            /\ tasks[i].serial = created
            /\ tasks[i].user_id = 2
            /\ tasks[j].user_id = 1

\* C13: /clear_completed answers with the redirect to / whether or not the
\* caller has completed tasks, and it removes or changes no task whose
\* is_completed is false, of any user.
C13_ClearCompletedKeepsActive ==
    [][(req'.route = "/clear_completed" /\ Caller # 0)
       => (/\ resp'.status = 302
           /\ resp'.location = "/"
           /\ \A i \in DOMAIN tasks :
                ~tasks[i].is_completed =>
                    (i \in DOMAIN tasks' /\ tasks'[i] = tasks[i]))]_vars

\* /clear_completed was served while only active tasks were stored
C13_Witness ==
    /\ req.route = "/clear_completed"
    /\ resp.status = 302
    /\ resp.location = "/"
    /\ created = Cardinality(DOMAIN tasks)
    /\ \E i \in DOMAIN tasks : tasks[i].user_id = session[req.client]
    /\ \A i \in DOMAIN tasks : ~tasks[i].is_completed

\* users_table holds alice1, registered with Str0ng!Pw, and nobody else
E2E_Registered ==
    /\ Len(users) = 1
    /\ users[1].username = Alice1
    /\ check_password_hash(users[1].password_hash, StrongPw)

\* the todo table holds one row, alice1's "Buy milk" / "2%", with that flag
E2E_OneTask(flag) ==
    /\ E2E_Registered
    /\ Cardinality(DOMAIN tasks) = 1
    /\ \A i \in DOMAIN tasks :
            /\ tasks[i].user_id = 1
            /\ tasks[i].title = BuyMilk
            /\ tasks[i].description = TwoPercent
            /\ tasks[i].is_completed = flag

\* the home page of alice1's session
E2E_Home == resp.body = "home.html" /\ session[req.client] = 1

\* C14: from the empty store, signup(alice1, Str0ng!Pw, Str0ng!Pw) succeeds;
\* login with these credentials succeeds and binds the session to alice1;
\* POST / with "Buy milk" / "2%" puts the task in alice1's active list;
\* /complete moves it to the completed list and empties the active list;
\* /clear_completed empties the completed list.
C14_EndToEnd ==
    /\ [][(/\ users = << >>
           /\ IsSignupPost(req')
           /\ req'.form = [username |-> Alice1, password |-> StrongPw,
                           confirm_password |-> StrongPw])
          => (/\ resp'.flash = "User added successfully."
              /\ E2E_Registered')]_vars
    /\ [][(/\ E2E_Registered
           /\ IsLoginPost(req')
           /\ req'.form = [username |-> Alice1, password |-> StrongPw])
          => (/\ resp'.flash = "Login Successfull."
              /\ session'[req'.client] = 1)]_vars
    /\ [][(/\ E2E_Registered
           /\ tasks = << >>
           /\ Caller = 1
           /\ req'.route = "/"
           /\ req'.method = "POST"
           /\ req'.form = [title |-> BuyMilk, description |-> TwoPercent])
          => (resp'.status = 302 /\ E2E_OneTask(FALSE)')]_vars
    /\ [][(/\ E2E_OneTask(FALSE)
           /\ Caller = 1
           /\ req'.route = "/complete"
           /\ req'.id \in DOMAIN tasks)
          => (resp'.status = 302 /\ E2E_OneTask(TRUE)')]_vars
    /\ [][(/\ E2E_OneTask(TRUE)
           /\ Caller = 1
           /\ req'.route = "/clear_completed")
          => (resp'.status = 302 /\ E2E_Registered' /\ tasks' = << >>)]_vars
    /\ []((E2E_Home /\ E2E_OneTask(FALSE))
            => (Len(resp.todos) = 1 /\ resp.todos[1] \in DOMAIN tasks
                /\ resp.completed = << >>))
    /\ []((E2E_Home /\ E2E_OneTask(TRUE))
            => (Len(resp.completed) = 1 /\ resp.completed[1] \in DOMAIN tasks
                /\ resp.todos = << >>))
    /\ []((E2E_Home /\ E2E_Registered /\ tasks = << >>)
            => (resp.todos = << >> /\ resp.completed = << >>))

\* the end of the trace: alice1's only task ever made is gone after
\* /clear_completed
C14_Witness ==
    /\ E2E_Registered
    /\ session[req.client] = 1
    /\ req.route = "/clear_completed"
    /\ resp.status = 302
    /\ created = 1
    /\ tasks = << >>

\* C15: /logout leaves no user bound to the client's session whether or not
\* one was bound before, answers with a redirect, and changes neither table;
\* requested again it also leaves the session as it is.
C15_LogoutIdempotent ==
    [][req'.route = "/logout"
       => (/\ session'[req'.client] = 0
           /\ \A d \in Clients \ {req'.client} : session'[d] = session[d]
           /\ Caller = 0 => session' = session
           /\ resp'.status = 302
           /\ resp'.location = "/login"
           /\ users' = users
           /\ tasks' = tasks)]_vars

\* a /logout served for a session that was already logged out
C15_Witness ==
    /\ req.route = "/logout"
    /\ resp.flash = "Please log in to access this page."
    /\ session[req.client] = 0
    /\ tasks # << >>

\* C20: a login that fails (Invalid User or Invalid Password) leaves every
\* session, users_table and the todo table as they were.
C20_FailedLoginChangesNothing ==
    [][(/\ IsLoginPost(req')
        /\ resp'.flash \in {"Invalid User.", "Invalid Password."})
       => (session' = session /\ users' = users /\ tasks' = tasks)]_vars

\* a wrong password for one user while another user stays logged in
C20_Witness ==
    /\ IsLoginPost(req)
    /\ resp.flash = "Invalid Password."
    /\ session[req.client] # 0
    /\ users[session[req.client]].username # req.form.username
    /\ tasks # << >>

Whitespace == {" ", "\t", "\n", "\r"}

\* a string without its leading and trailing whitespace
RECURSIVE Trim(_)
Trim(str) ==
    IF str = << >> THEN << >>
    ELSE IF str[1] \in Whitespace THEN Trim(Tail(str))
    ELSE IF str[Len(str)] \in Whitespace THEN Trim(SubSeq(str, 1, Len(str) - 1))
    ELSE str

\* C12: POST / with both fields answers 400 and inserts nothing whenever the
\* title or the description is empty after trimming surrounding whitespace;
\* otherwise it inserts exactly one task and redirects to /.
C12_BlankFieldsRejected ==
    [][(/\ req'.route = "/"
        /\ req'.method = "POST"
        /\ Caller # 0
        /\ {"title", "description"} \subseteq DOMAIN req'.form)
       => IF Trim(req'.form.title) = << >> \/ Trim(req'.form.description) = << >>
          THEN resp'.status = 400 /\ tasks' = tasks
          ELSE /\ resp'.status = 302
               /\ resp'.location = "/"
               /\ Cardinality(DOMAIN tasks') = Cardinality(DOMAIN tasks) + 1
               /\ \A i \in DOMAIN tasks :
                    i \in DOMAIN tasks' /\ tasks'[i] = tasks[i]]_vars

\* C19: every stored task has a non-empty title of at most 100 characters
\* and a non-empty description, and no request changes the creation date of
\* a task that stays in the table.
C19_TaskFieldsWellFormed ==
    /\ [](\A i \in DOMAIN tasks :
            /\ tasks[i].title # << >>
            /\ Len(tasks[i].title) <= TitleColumnLen
            /\ tasks[i].description # << >>)
    /\ [][\A i \in DOMAIN tasks \cap DOMAIN tasks' :
            tasks'[i].serial = tasks[i].serial =>
                tasks'[i].date_created = tasks[i].date_created]_vars

\* C16: verify_username(u) is true if and only if 3 <= len(u) <= 20, u[0] is
\* a letter, and every character of u is a letter, a digit, '_' or '.'.
C16_VerifyUsernameIff ==
    (req.route = "verify_username" /\ resp.status = 200) =>
        LET u == req.form.username
        IN  (resp.body = "True") <=>
                (/\ 3 <= Len(u)
                 /\ Len(u) <= 20
                 /\ u[1] \in Upper \cup Lower
                 /\ \A i \in 1..Len(u) :
                        u[i] \in Upper \cup Lower \cup Digit \cup {"_", "."})

\* C17: verify_password(p) is true if and only if len(p) >= 8 and p has an
\* upper-case letter, a lower-case letter, a digit and a symbol of the
\* punctuation set.
C17_VerifyPasswordIff ==
    (req.route = "verify_password" /\ resp.status = 200) =>
        LET p == req.form.password
        IN  (resp.body = "True") <=>
                (/\ Len(p) >= 8
                 /\ Range(p) \cap Upper # {}
                 /\ Range(p) \cap Lower # {}
                 /\ Range(p) \cap Digit # {}
                 /\ Range(p) \cap Special # {})

\* a password of exactly eight characters with all four kinds was accepted
C17_Witness ==
    /\ req.route = "verify_password"
    /\ resp.status = 200
    /\ resp.body = "True"
    /\ Len(req.form.password) = 8
    /\ "-" \in Range(req.form.password)

\* C18: when signup requests for the same username run concurrently, the
\* lookup and the insert of each being separate steps, users_table never
\* holds two users with the same username.
C18_UsernamesUniqueUnderConcurrency ==
    \A i, j \in 1..Len(users) :
        users[i].username = users[j].username => i = j
====
